---- MODULE Spec2Model ----
(***************************************************************************)
(* Model of the simulated-account position ledger of                       *)
(* src/src/portfolio.py (PortfolioManager and its data classes), of the    *)
(* command-line front end src/trade.py and of the read-only web API        *)
(* src/web/portfolio_api.py.                                                *)
(*                                                                         *)
(* Python floats are modelled as exact rationals [n, d] in lowest terms    *)
(* (d > 0); Python ints are TLA+ integers and are embedded as n/1 when     *)
(* they meet a float.  Timestamps produced by datetime.now() are ticks of  *)
(* a logical clock; the empty string of a timestamp field is NoTime.       *)
(***************************************************************************)
EXTENDS Integers, Sequences, FiniteSets, TLC

VARIABLES
    portfolio,   \* PortfolioManager.portfolio : PortfolioConfig
    disk,        \* the file at PortfolioManager.config_path
    clock,       \* what datetime.now() returns
    call,        \* the last operation invoked on the manager, with its arguments
    ret,         \* what that operation returned to its caller
    cause,       \* how that operation ended (the last line it logged)
    reported,    \* for each way a disposal can end, the results callers were given
    trades,      \* the trade journal
    steps,       \* number of operations invoked so far
    batch,       \* a run of acquisitions of one symbol a caller means to make
    todo,        \* the acquisitions of the batch not made yet
    alerts,      \* what the last check_risk_alerts call returned
    store,       \* the journal and snapshot files the web API reads
    reply,       \* what the last web API call returned
    peer         \* the portfolio of a second PortfolioManager on the same file

vars == <<portfolio, disk, clock, call, ret, cause, reported, trades, steps, batch, todo,
          alerts, store, reply, peer>>

\* what the ledger operations never touch
aside == <<alerts, store, reply, peer>>

----------------------------------------------------------------------------
(* Bounds of the model *)

MaxSteps == 2
MaxClock == 1
MaxShareInput == 2
MaxBatch == 3
MaxDates == 3
MaxJournal == 4

----------------------------------------------------------------------------
(* Exact arithmetic standing for Python float arithmetic *)

Abs(x) == IF x < 0 THEN -x ELSE x

RECURSIVE GCD(_, _)
GCD(a, b) == IF b = 0 THEN a ELSE GCD(b, a % b)

Rat(n, d) ==
    LET g == GCD(Abs(n), Abs(d))
        s == IF d < 0 THEN -1 ELSE 1
    IN  [n |-> (s * n) \div g, d |-> (s * d) \div g]

R(i) == [n |-> i, d |-> 1]

\* sums and comparisons are taken over the least common denominator
RAdd(a, b) ==
    LET g == GCD(a.d, b.d)
    IN  Rat(a.n * (b.d \div g) + b.n * (a.d \div g), (a.d \div g) * b.d)
RNeg(a) == [n |-> -a.n, d |-> a.d]
RSub(a, b) == RAdd(a, RNeg(b))
RMul(a, b) == Rat(a.n * b.n, a.d * b.d)
RDiv(a, b) == Rat(a.n * b.d, a.d * b.n)
RLt(a, b) ==
    LET g == GCD(a.d, b.d) IN a.n * (b.d \div g) < b.n * (a.d \div g)
RLe(a, b) == ~RLt(b, a)
RMax(a, b) == IF RLt(a, b) THEN b ELSE a

----------------------------------------------------------------------------
(* Data classes *)

NoTime == -1

\* datetime.now().strftime(...).split()[0]: the date part of a timestamp
TicksPerDay == 2
DateOf(now) == now \div TicksPerDay

\* Position(code, name, shares, cost_price, ...) with the dataclass defaults
Position(code, name, shares, cost_price, current_price, buy_date, last_update, notes) ==
    [code |-> code, name |-> name, shares |-> shares, cost_price |-> cost_price,
     current_price |-> current_price, buy_date |-> buy_date,
     last_update |-> last_update, notes |-> notes]

cost_amount(pos) == RMul(R(pos.shares), pos.cost_price)
market_value(pos) == RMul(R(pos.shares), pos.current_price)
profit_loss(pos) == RSub(market_value(pos), cost_amount(pos))
profit_loss_pct(pos) ==
    IF cost_amount(pos) = R(0) THEN R(0)
    ELSE RMul(RDiv(profit_loss(pos), cost_amount(pos)), R(100))

\* The positions dict keeps insertion order: a sequence of [key, pos] entries
\* with pairwise distinct keys.
Keys(ps) == {ps[i].key : i \in 1..Len(ps)}
HasKey(ps, code) == code \in Keys(ps)
IndexOf(ps, code) == CHOOSE i \in 1..Len(ps) : ps[i].key = code
Lookup(ps, code) == ps[IndexOf(ps, code)].pos
\* positions[code] = pos  (assignment: in place for a present key, else appended)
Store(ps, code, pos) ==
    IF HasKey(ps, code)
    THEN [ps EXCEPT ![IndexOf(ps, code)] = [key |-> code, pos |-> pos]]
    ELSE Append(ps, [key |-> code, pos |-> pos])
\* del positions[code]
Delete(ps, code) ==
    LET i == IndexOf(ps, code)
    IN  SubSeq(ps, 1, i - 1) \o SubSeq(ps, i + 1, Len(ps))

\* PortfolioConfig() with the dataclass defaults, __post_init__ run at `now`
DefaultConfig(now) ==
    [initial_capital |-> R(100000), available_cash |-> R(100000),
     max_single_position_pct |-> R(30), stop_loss_pct |-> R(8),
     take_profit_pct |-> R(20), max_total_position_pct |-> R(80),
     commission_rate |-> Rat(3, 10000), stamp_duty_rate |-> Rat(1, 1000),
     min_commission |-> R(5),
     positions |-> <<>>,
     created_at |-> now, updated_at |-> now]


\* Position.to_dict
PositionToDict(pos) ==
    [code |-> pos.code, name |-> pos.name, shares |-> pos.shares,
     cost_price |-> pos.cost_price, current_price |-> pos.current_price,
     buy_date |-> pos.buy_date, last_update |-> pos.last_update,
     notes |-> pos.notes]

\* dict.get(key, default)
Get(data, key, default) == IF key \in DOMAIN data THEN data[key] ELSE default

\* Position.from_dict reading the notes under a key to_dict never writes
PositionFromDict_NotesLost(data) ==
    Position(Get(data, "code", ""), Get(data, "name", ""), Get(data, "shares", 0),
             Get(data, "cost_price", R(0)), Get(data, "current_price", R(0)),
             Get(data, "buy_date", NoTime), Get(data, "last_update", NoTime),
             Get(data, "note", ""))

\* Position.from_dict
PositionFromDict(data) ==
    Position(Get(data, "code", ""), Get(data, "name", ""), Get(data, "shares", 0),
             Get(data, "cost_price", R(0)), Get(data, "current_price", R(0)),
             Get(data, "buy_date", NoTime), Get(data, "last_update", NoTime),
             Get(data, "notes", ""))

\* to_dict leaving the cash out of the dictionary
to_dict_CashLeftOut(p) ==
    [initial_capital |-> p.initial_capital,
     max_single_position_pct |-> p.max_single_position_pct,
     stop_loss_pct |-> p.stop_loss_pct, take_profit_pct |-> p.take_profit_pct,
     max_total_position_pct |-> p.max_total_position_pct,
     commission_rate |-> p.commission_rate, stamp_duty_rate |-> p.stamp_duty_rate,
     min_commission |-> p.min_commission,
     positions |-> [i \in 1..Len(p.positions) |->
                       [key |-> p.positions[i].key,
                        data |-> PositionToDict(p.positions[i].pos)]],
     created_at |-> p.created_at, updated_at |-> p.updated_at]

\* PortfolioConfig.to_dict: the positions dict becomes a JSON object, written
\* and read back in insertion order
to_dict(p) ==
    [initial_capital |-> p.initial_capital, available_cash |-> p.available_cash,
     max_single_position_pct |-> p.max_single_position_pct,
     stop_loss_pct |-> p.stop_loss_pct, take_profit_pct |-> p.take_profit_pct,
     max_total_position_pct |-> p.max_total_position_pct,
     commission_rate |-> p.commission_rate, stamp_duty_rate |-> p.stamp_duty_rate,
     min_commission |-> p.min_commission,
     positions |-> [i \in 1..Len(p.positions) |->
                       [key |-> p.positions[i].key,
                        data |-> PositionToDict(p.positions[i].pos)]],
     created_at |-> p.created_at, updated_at |-> p.updated_at]

\* PortfolioConfig.__post_init__
post_init(p, now) ==
    [p EXCEPT !.created_at = IF p.created_at = NoTime THEN now ELSE p.created_at,
              !.updated_at = now]

\* PortfolioConfig.from_dict, __post_init__ included
from_dict(data, now) ==
    LET items == Get(data, "positions", <<>>)
    IN  post_init(
          [initial_capital |-> Get(data, "initial_capital", R(100000)),
           available_cash |-> Get(data, "available_cash", R(100000)),
           max_single_position_pct |-> Get(data, "max_single_position_pct", R(30)),
           stop_loss_pct |-> Get(data, "stop_loss_pct", R(8)),
           take_profit_pct |-> Get(data, "take_profit_pct", R(20)),
           max_total_position_pct |-> Get(data, "max_total_position_pct", R(80)),
           commission_rate |-> Get(data, "commission_rate", Rat(3, 10000)),
           stamp_duty_rate |-> Get(data, "stamp_duty_rate", Rat(1, 1000)),
           min_commission |-> Get(data, "min_commission", R(5)),
           positions |-> [i \in 1..Len(items) |->
                             [key |-> items[i].key,
                              pos |-> PositionFromDict(items[i].data)]],
           created_at |-> Get(data, "created_at", NoTime),
           updated_at |-> Get(data, "updated_at", NoTime)],
          now)

----------------------------------------------------------------------------
(* The account document on disk *)

Missing == [kind |-> "missing"]
\* a file that json.load rejects: empty after open(..., 'w'), or cut short
Corrupt == [kind |-> "corrupt"]
\* a file that json.load accepts and that is not the object its reader expects
\* (an array, null, a number): reading a key of it raises
Misshapen == [kind |-> "misshapen"]
Doc(data) == [kind |-> "doc", data |-> data]
\* a file written from `data` that json.load rejects all the same (cut short,
\* or edited by hand into invalid JSON)
Garbled(data) == [kind |-> "garbled", data |-> data]

\* (a bug load_config could have: what can be read of a garbled document is
\* taken over instead of the default account)
load_config_Salvaging(d, now) ==
    IF d.kind \in {"doc", "garbled"} THEN from_dict(d.data, now)
    ELSE DefaultConfig(now)

\* PortfolioManager._load_config: any exception of json.load or from_dict ends
\* in the default account
load_config(d, now) ==
    IF d.kind = "doc" THEN from_dict(d.data, now) ELSE DefaultConfig(now)

\* How a save can end: it succeeds; mkdir raises; open(..., 'w') raises and
\* the old file stays; json.dump raises after open truncated the file.
SaveOutcomes == {"ok", "mkdir_fails", "open_fails", "dump_fails"}

\* PortfolioManager.save_config: the portfolio, the file and the returned bool
save_config(p, d, now, outcome) ==
    LET stamped == [p EXCEPT !.updated_at = now]
    IN  CASE outcome = "ok" ->
               [portfolio |-> stamped, disk |-> Doc(to_dict(stamped)), ok |-> TRUE]
          [] outcome = "mkdir_fails" ->
               [portfolio |-> p, disk |-> d, ok |-> FALSE]
          [] outcome = "open_fails" ->
               [portfolio |-> stamped, disk |-> d, ok |-> FALSE]
          [] outcome = "dump_fails" ->
               [portfolio |-> stamped, disk |-> Corrupt, ok |-> FALSE]

----------------------------------------------------------------------------
(* The ledger operations, as functions of the portfolio *)

\* (a bug AverageCost could have: the mean of the two prices, unweighted)
AverageCost_Unweighted(pos, shares, cost_price) ==
    RDiv(RAdd(pos.cost_price, cost_price), R(2))

\* the cost price of a held position after `shares` more are bought at
\* `cost_price`: total_cost / total_shares, kept as it is when total_shares <= 0
AverageCost(pos, shares, cost_price) ==
    LET total_cost == RAdd(cost_amount(pos), RMul(R(shares), cost_price))
        total_shares == pos.shares + shares
    IN  IF total_shares > 0 THEN RDiv(total_cost, R(total_shares))
        ELSE pos.cost_price

\* (a bug add_position could have: a new position is quoted at its cost price)
add_position_AtCost(p, code, name, shares, cost_price, notes, now) ==
    IF HasKey(p.positions, code)
    THEN LET pos == Lookup(p.positions, code)
             total_shares == pos.shares + shares
             updated ==
               [pos EXCEPT
                  !.cost_price = AverageCost(pos, shares, cost_price),
                  !.shares = total_shares,
                  !.last_update = now,
                  !.notes = IF notes # "" THEN notes ELSE pos.notes]
         IN  [p EXCEPT !.positions = Store(p.positions, code, updated)]
    ELSE [p EXCEPT !.positions =
            Store(p.positions, code,
                  Position(code, name, shares, cost_price, cost_price,
                           DateOf(now), now, notes))]

\* PortfolioManager.add_position up to, not including, save_config
add_position(p, code, name, shares, cost_price, notes, now) ==
    IF HasKey(p.positions, code)
    THEN LET pos == Lookup(p.positions, code)
             total_shares == pos.shares + shares
             updated ==
               [pos EXCEPT
                  !.cost_price = AverageCost(pos, shares, cost_price),
                  !.shares = total_shares,
                  !.last_update = now,
                  !.notes = IF notes # "" THEN notes ELSE pos.notes]
         IN  [p EXCEPT !.positions = Store(p.positions, code, updated)]
    ELSE [p EXCEPT !.positions =
            Store(p.positions, code,
                  Position(code, name, shares, cost_price, R(0),
                           DateOf(now), now, notes))]

\* (a bug Commission could have: the minimum commission is forgotten)
Commission_ByRate(p, amount) == RMul(amount, p.commission_rate)

\* commission = max(amount * commission_rate, min_commission)
Commission(p, amount) == RMax(RMul(amount, p.commission_rate), p.min_commission)
\* stamp_duty = sell_amount * stamp_duty_rate
StampDuty(p, amount) == RMul(amount, p.stamp_duty_rate)

\* (a bug Oversold could have: the held shares are never checked)
Oversold_Unchecked(pos, shares) == FALSE

\* (a bug Emptied could have: a closed position is kept as a zero row)
Emptied_Kept(pos) == pos.shares < 0

\* shares > pos.shares: the disposal asks for more than is held
Oversold(pos, shares) == shares > pos.shares
\* pos.shares == 0: the position is closed and leaves the dict
Emptied(pos) == pos.shares = 0
\* available_cash += sell_amount - commission - stamp_duty
Credit(p, sell_amount) ==
    RAdd(p.available_cash,
         RSub(RSub(sell_amount, Commission(p, sell_amount)),
              StampDuty(p, sell_amount)))

\* (a bug reduce_position could have: what is left is re-costed at the sell price)
reduce_position_Rebasing(p, code, shares, sell_price, now) ==
    IF ~HasKey(p.positions, code)
    THEN [cause |-> "UnknownSymbol", portfolio |-> p]
    ELSE LET pos == Lookup(p.positions, code) IN
         IF Oversold(pos, shares)
         THEN [cause |-> "InsufficientShares", portfolio |-> p]
         ELSE LET sell_amount == RMul(R(shares), sell_price)
                  sold == [pos EXCEPT !.shares = pos.shares - shares,
                                      !.cost_price = sell_price,
                                      !.last_update = now]
                  kept == IF Emptied(sold)
                          THEN Delete(p.positions, code)
                          ELSE Store(p.positions, code, sold)
              IN  [cause |-> "Accepted",
                   portfolio |-> [p EXCEPT !.positions = kept,
                                           !.available_cash = Credit(p, sell_amount)]]

\* PortfolioManager.reduce_position up to, not including, save_config:
\* `cause` is "UnknownSymbol" or "InsufficientShares" where the method logs a
\* warning and returns False, "Accepted" where it goes on to save_config
reduce_position(p, code, shares, sell_price, now) ==
    IF ~HasKey(p.positions, code)
    THEN [cause |-> "UnknownSymbol", portfolio |-> p]
    ELSE LET pos == Lookup(p.positions, code) IN
         IF Oversold(pos, shares)
         THEN [cause |-> "InsufficientShares", portfolio |-> p]
         ELSE LET sell_amount == RMul(R(shares), sell_price)
                  sold == [pos EXCEPT !.shares = pos.shares - shares,
                                      !.last_update = now]
                  kept == IF Emptied(sold)
                          THEN Delete(p.positions, code)
                          ELSE Store(p.positions, code, sold)
              IN  [cause |-> "Accepted",
                   portfolio |-> [p EXCEPT !.positions = kept,
                                           !.available_cash = Credit(p, sell_amount)]]

\* update_prices also moving the cost price to the quote
update_prices_Rebasing(p, prices, now) ==
    [p EXCEPT !.positions =
       [i \in 1..Len(p.positions) |->
          IF p.positions[i].key \in DOMAIN prices
          THEN [p.positions[i] EXCEPT
                  !.pos.current_price = prices[p.positions[i].key],
                  !.pos.cost_price = prices[p.positions[i].key],
                  !.pos.last_update = now]
          ELSE p.positions[i]]]

\* PortfolioManager.update_prices up to, not including, save_config;
\* prices is a dict {code: price}
update_prices(p, prices, now) ==
    [p EXCEPT !.positions =
       [i \in 1..Len(p.positions) |->
          IF p.positions[i].key \in DOMAIN prices
          THEN [p.positions[i] EXCEPT
                  !.pos.current_price = prices[p.positions[i].key],
                  !.pos.last_update = now]
          ELSE p.positions[i]]]

\* PortfolioManager.has_position
has_position(p, code) == HasKey(p.positions, code)
\* PortfolioManager.get_position: an Optional, <<>> for None
get_position(p, code) ==
    IF HasKey(p.positions, code) THEN <<Lookup(p.positions, code)>> ELSE <<>>

PyBool(b) == IF b THEN "True" ELSE "False"
\* save_config logs "saved" (info) or "save failed" (error)
SaveCause(ok) == IF ok THEN "Saved" ELSE "PersistenceFailure"


----------------------------------------------------------------------------
(* Inputs *)

Codes == {"AAA", "BBB"}
Names == {"Widget"}
NotesInputs == {"", "dip"}
\* argparse type=int: a share count of zero is not refused
ShareInputs == 0 .. MaxShareInput
PriceInputs == {R(1), Rat(3, 2)}
QuoteInputs == {R(2)}

\* Account documents an earlier run of save_config can have left behind
\* (here: all cash spent, one symbol held, a steeper fee schedule)
SpentConfig ==
    [DefaultConfig(0) EXCEPT !.available_cash = R(0),
                             !.positions =
                                <<[key |-> "AAA",
                                   pos |-> Position("AAA", "Widget", 1, R(1), R(0),
                                                    0, 0, "")]>>,
                             !.commission_rate = Rat(1, 2),
                             !.stamp_duty_rate = Rat(1, 10),
                             !.min_commission = R(1)]
InitialDisks == {Missing, Doc(to_dict(SpentConfig))}

\* The ways a disposal can end
Causes == {"UnknownSymbol", "InsufficientShares", "PersistenceFailure", "Saved"}
Note(rep, why, result) == [rep EXCEPT ![why] = @ \cup {result}]
NoCall == [op |-> "init", code |-> "", shares |-> 0, price |-> R(0)]
\* no journal or snapshot file written yet, no web API call made yet
NoStore == [trades |-> Missing, snapshots |-> Missing]
NoReply == [op |-> "none"]
\* no second manager constructed
NoPeer == <<>>

----------------------------------------------------------------------------
(* The ledger: PortfolioManager driven by its callers *)

\* PortfolioManager.__init__
Init ==
    /\ disk \in InitialDisks
    /\ clock = 0
    /\ portfolio = load_config(disk, 0)
    /\ call = NoCall
    /\ ret = "None"
    /\ cause = "Loaded"
    /\ reported = [c \in Causes |-> {}]
    /\ trades = <<>>
    /\ steps = 0
    /\ batch = <<>>
    /\ todo = {}
    /\ alerts = <<>>
    /\ store = NoStore
    /\ reply = NoReply
    /\ peer = NoPeer

\* PortfolioManager.add_position
AddPosition ==
    /\ steps < MaxSteps
    /\ \E code \in Codes, name \in Names, shares \in ShareInputs,
          cost_price \in PriceInputs, notes \in NotesInputs,
          outcome \in SaveOutcomes :
          LET p1 == add_position(portfolio, code, name, shares, cost_price,
                                 notes, clock)
              s == save_config(p1, disk, clock, outcome)
          IN  /\ portfolio' = s.portfolio
              /\ disk' = s.disk
              /\ ret' = PyBool(s.ok)
              /\ cause' = SaveCause(s.ok)
              /\ call' = [op |-> "add_position", code |-> code,
                          shares |-> shares, price |-> cost_price]
    /\ steps' = steps + 1
    /\ UNCHANGED <<clock, reported, trades, batch, todo, aside>>

\* PortfolioManager.reduce_position
ReducePosition ==
    /\ steps < MaxSteps
    /\ \E code \in Codes, shares \in ShareInputs, sell_price \in PriceInputs,
          outcome \in SaveOutcomes :
          LET r == reduce_position(portfolio, code, shares, sell_price, clock)
              s == save_config(r.portfolio, disk, clock, outcome)
          IN  /\ call' = [op |-> "reduce_position", code |-> code,
                          shares |-> shares, price |-> sell_price]
              /\ IF r.cause # "Accepted"
                 THEN /\ portfolio' = r.portfolio
                      /\ disk' = disk
                      /\ ret' = "False"
                      /\ cause' = r.cause
                 ELSE /\ portfolio' = s.portfolio
                      /\ disk' = s.disk
                      /\ ret' = PyBool(s.ok)
                      /\ cause' = SaveCause(s.ok)
              /\ reported' = Note(reported, cause', ret')
    /\ steps' = steps + 1
    /\ UNCHANGED <<clock, trades, batch, todo, aside>>

\* PortfolioManager.update_prices, called with quotes for at most `most`
\* symbols, each drawn from `quotes`
UpdatePricesFrom(quotes, most) ==
    /\ steps < MaxSteps
    /\ \E quoted \in SUBSET Codes : \E prices \in [quoted -> quotes] :
       \E outcome \in SaveOutcomes :
          LET p1 == update_prices(portfolio, prices, clock)
              s == save_config(p1, disk, clock, outcome)
          IN  /\ Cardinality(quoted) <= most
              /\ portfolio' = s.portfolio
              /\ disk' = s.disk
              /\ ret' = "None"
              /\ cause' = SaveCause(s.ok)
              /\ call' = [op |-> "update_prices", prices |-> prices]
    /\ steps' = steps + 1
    /\ UNCHANGED <<clock, reported, trades, batch, todo, aside>>

\* PortfolioManager.update_prices
UpdatePrices == UpdatePricesFrom(QuoteInputs, Cardinality(Codes))

\* time passes between two operations
Tick ==
    /\ clock < MaxClock
    /\ clock' = clock + 1
    /\ UNCHANGED <<portfolio, disk, call, ret, cause, reported, trades, steps, batch, todo, aside>>

\* The operations of one run, all within one tick of the clock
Next == AddPosition \/ ReducePosition \/ UpdatePrices

Spec == Init /\ [][Next]_vars

\* The same operations spread over time
NextTimed == Next \/ Tick

SpecTimed == Init /\ [][NextTimed]_vars


----------------------------------------------------------------------------
(* A run of acquisitions of one symbol, made in any order *)

BatchCode == "BBB"
\* the acquisitions a batch is drawn from: shares > 0, price >= 0
BatchShares == {1, 2}
Acquisitions == [shares : BatchShares, price : PriceInputs \cup {R(0)}]
BatchesOf(n) == [1 .. n -> Acquisitions]

\* a manager whose account does not hold the symbol, and a batch to make
InitAcq ==
    /\ disk \in InitialDisks
    /\ clock = 0
    /\ portfolio = load_config(disk, 0)
    /\ call = NoCall
    /\ ret = "None"
    /\ cause = "Loaded"
    /\ reported = [c \in Causes |-> {}]
    /\ trades = <<>>
    /\ steps = 0
    /\ \E n \in 1 .. MaxBatch : batch \in BatchesOf(n)
    /\ todo = DOMAIN batch
    /\ alerts = <<>>
    /\ store = NoStore
    /\ reply = NoReply
    /\ peer = NoPeer

\* PortfolioManager.add_position, called for one acquisition of the batch
Acquire ==
    /\ \E i \in todo : \E outcome \in SaveOutcomes :
          LET p1 == add_position(portfolio, BatchCode, "Widget", batch[i].shares,
                                 batch[i].price, "", clock)
              s == save_config(p1, disk, clock, outcome)
          IN  /\ portfolio' = s.portfolio
              /\ disk' = s.disk
              /\ ret' = PyBool(s.ok)
              /\ cause' = SaveCause(s.ok)
              /\ call' = [op |-> "add_position", code |-> BatchCode,
                          shares |-> batch[i].shares, price |-> batch[i].price]
              /\ todo' = todo \ {i}
    /\ steps' = steps + 1
    /\ UNCHANGED <<clock, reported, trades, batch, aside>>

NextAcq == Acquire

SpecAcq == InitAcq /\ [][NextAcq]_vars

----------------------------------------------------------------------------
(* The trade journal: PortfolioManager.record_trade, which src/trade.py calls *)

TradeActions == {"buy", "sell", "add", "reduce"}
TradeShareInputs == {1, 1000, 100000}

\* Trade(date, time, code, name, action, shares, price, amount, commission,
\* stamp_duty, reason)
Trade(now, code, name, action, shares, price, commission, stamp_duty, reason) ==
    [date |-> DateOf(now), time |-> now, code |-> code, name |-> name,
     action |-> action, shares |-> shares, price |-> price,
     amount |-> RMul(R(shares), price), commission |-> commission,
     stamp_duty |-> stamp_duty, reason |-> reason]

\* (a bug Unaffordable could have: the commission is left out of the check)
Unaffordable_NoCommission(p, amount, commission) ==
    RLt(p.available_cash, amount)

\* (a bug Debit could have: the commission is not charged)
Debit_AmountOnly(p, amount, commission) == RSub(p.available_cash, amount)

\* amount + commission > available cash: the acquisition cannot be paid
Unaffordable(p, amount, commission) ==
    RLt(p.available_cash, RAdd(amount, commission))

\* available cash less (amount + commission)
Debit(p, amount, commission) ==
    RSub(p.available_cash, RAdd(amount, commission))

\* record_trade up to, not including, the save of the account and the append
\* to the journal
record_trade(p, code, name, action, shares, price, reason, now) ==
    LET amount == RMul(R(shares), price)
        commission == Commission(p, amount)
    IN  IF action \in {"buy", "add"}
        THEN IF Unaffordable(p, amount, commission)
             THEN [cause |-> "InsufficientCash", portfolio |-> p]
             ELSE LET p1 == add_position(p, code, name, shares, price, "", now)
                  IN  [cause |-> "Accepted",
                       portfolio |->
                         [p1 EXCEPT !.available_cash =
                            Debit(p, amount, commission)],
                       trade |-> Trade(now, code, name, action, shares, price,
                                       commission, R(0), reason)]
        ELSE LET r == reduce_position(p, code, shares, price, now)
             IN  IF r.cause # "Accepted"
                 THEN r
                 ELSE [cause |-> "Accepted", portfolio |-> r.portfolio,
                       trade |-> Trade(now, code, name, action, shares, price,
                                       commission, StampDuty(p, amount), reason)]

\* `trade.py buy|sell|add|reduce <code> <name> <shares> <price>`
RecordTrade ==
    /\ steps < MaxSteps
    /\ \E action \in TradeActions, code \in Codes, name \in Names,
          shares \in TradeShareInputs, price \in PriceInputs,
          outcome \in SaveOutcomes :
          LET r == record_trade(portfolio, code, name, action, shares, price,
                                "", clock)
              s == save_config(r.portfolio, disk, clock, outcome)
          IN  /\ call' = [op |-> "record_trade", code |-> code,
                          shares |-> shares, price |-> price,
                          action |-> action]
              /\ IF r.cause # "Accepted"
                 THEN /\ portfolio' = r.portfolio
                      /\ disk' = disk
                      /\ ret' = r.cause
                      /\ cause' = r.cause
                      /\ trades' = trades
                 ELSE /\ portfolio' = s.portfolio
                      /\ disk' = s.disk
                      /\ cause' = SaveCause(s.ok)
                      /\ ret' = IF s.ok THEN "Trade" ELSE "PersistenceFailure"
                      /\ trades' = IF s.ok THEN Append(trades, r.trade)
                                   ELSE trades
    /\ steps' = steps + 1
    /\ UNCHANGED <<clock, reported, batch, todo, aside>>

NextTrade == RecordTrade

SpecTrade == Init /\ [][NextTrade]_vars

----------------------------------------------------------------------------
(* Properties of the ledger *)

\* shares held of a symbol, 0 for a symbol that is not in the position map
SharesOf(p, code) ==
    IF HasKey(p.positions, code) THEN Lookup(p.positions, code).shares ELSE 0

\* the step is a call of reduce_position
IsDisposal == call'.op = "reduce_position"
\* ... that asks for more than is held, or names a symbol that is not held
IsRefusable ==
    /\ IsDisposal
    /\ \/ ~HasKey(portfolio.positions, call'.code)
       \/ call'.shares > SharesOf(portfolio, call'.code)

\* C2: no entry of the position map has fewer than one share.
C2_NoEmptyPosition ==
    \A i \in 1..Len(portfolio.positions) : portfolio.positions[i].pos.shares >= 1

\* C3: a disposal of more shares than are held, or of a symbol that is not
\* held, returns False and leaves the positions, the cash (the whole
\* in-memory account) and the persisted document as they were.
C3_RefusedDisposalChangesNothing ==
    [][IsRefusable => /\ ret' = "False"
                      /\ portfolio' = portfolio
                      /\ disk' = disk]_vars

\* reached: an oversized disposal of a held symbol was refused while a
\* document was on disk
C3_Witness ==
    /\ call.op = "reduce_position"
    /\ cause = "InsufficientShares"
    /\ HasKey(portfolio.positions, call.code)
    /\ call.shares > SharesOf(portfolio, call.code)
    /\ ret = "False"
    /\ disk.kind = "doc"

\* C5: available cash is never negative.
C5_CashNeverNegative == RLe(R(0), portfolio.available_cash)

\* C6: disposing exactly the held number of shares removes the symbol:
\* has_position is false and get_position returns None afterwards.
C6_FullDisposalRemoves ==
    [][(/\ IsDisposal
        /\ HasKey(portfolio.positions, call'.code)
        /\ call'.shares = SharesOf(portfolio, call'.code))
       => /\ ~has_position(portfolio', call'.code)
          /\ get_position(portfolio', call'.code) = <<>>]_vars

\* reached: a positive holding was disposed of in full
C6_Witness ==
    /\ call.op = "reduce_position"
    /\ cause \in {"Saved", "PersistenceFailure"}
    /\ call.shares >= 1
    /\ ~HasKey(portfolio.positions, call.code)

\* C7: disposing zero shares of a held symbol changes neither the position's
\* shares and cost price nor the available cash.
C7_ZeroDisposalIsNoOp ==
    [][(/\ IsDisposal
        /\ call'.shares = 0
        /\ HasKey(portfolio.positions, call'.code))
       => /\ HasKey(portfolio'.positions, call'.code)
          /\ SharesOf(portfolio', call'.code) = SharesOf(portfolio, call'.code)
          /\ Lookup(portfolio'.positions, call'.code).cost_price
               = Lookup(portfolio.positions, call'.code).cost_price
          /\ portfolio'.available_cash = portfolio.available_cash]_vars

\* C8: an accepted disposal of n shares at price p adds exactly
\* n*p - max(n*p*commission_rate, min_commission) - n*p*stamp_duty_rate to the
\* available cash and takes exactly n from the symbol's shares.
C8_DisposalCredit ==
    [][(IsDisposal /\ ~IsRefusable)
       => LET amount == RMul(R(call'.shares), call'.price)
              byRate == RMul(amount, portfolio.commission_rate)
              commission == IF RLt(byRate, portfolio.min_commission)
                            THEN portfolio.min_commission ELSE byRate
              stamp_duty == RMul(amount, portfolio.stamp_duty_rate)
          IN  /\ portfolio'.available_cash =
                   RAdd(portfolio.available_cash,
                        RSub(RSub(amount, commission), stamp_duty))
              /\ SharesOf(portfolio', call'.code)
                   = SharesOf(portfolio, call'.code) - call'.shares]_vars

\* reached: part of a holding was sold and the commission went by the rate
C8_Witness ==
    /\ call.op = "reduce_position"
    /\ cause = "Saved"
    /\ call.shares >= 1
    /\ HasKey(portfolio.positions, call.code)
    /\ RLt(portfolio.min_commission,
           RMul(RMul(R(call.shares), call.price), portfolio.commission_rate))

\* C10: a disposal refused for an unknown symbol, one refused for
\* insufficient shares and one whose save failed give their callers
\* pairwise different results.
C10_ReasonsDistinguishable ==
    \A c1, c2 \in {"UnknownSymbol", "InsufficientShares", "PersistenceFailure"} :
        c1 # c2 => reported[c1] \cap reported[c2] = {}


\* sums over the acquisitions of the batch with indices in S
RECURSIVE SumShares(_), SumCost(_)
SumShares(S) ==
    IF S = {} THEN 0
    ELSE LET i == CHOOSE x \in S : TRUE
         IN  batch[i].shares + SumShares(S \ {i})
SumCost(S) ==
    IF S = {} THEN R(0)
    ELSE LET i == CHOOSE x \in S : TRUE
         IN  RAdd(RMul(R(batch[i].shares), batch[i].price), SumCost(S \ {i}))
Made == DOMAIN batch \ todo

\* C1: after any acquisitions of a symbol that was not held, made in any
\* order, the position has shares = sum(shares_i) and
\* cost_price = sum(shares_i * price_i) / sum(shares_i); the values depend on
\* which acquisitions were made, not on their order.
C1_WeightedAverage ==
    Made # {} =>
        /\ HasKey(portfolio.positions, BatchCode)
        /\ SharesOf(portfolio, BatchCode) = SumShares(Made)
        /\ Lookup(portfolio.positions, BatchCode).cost_price
             = RDiv(SumCost(Made), R(SumShares(Made)))

\* reached: a batch of three acquisitions at three different prices is done
C1_Witness ==
    /\ Len(batch) = 3 /\ todo = {}
    /\ Cardinality({batch[i].price : i \in DOMAIN batch}) = 3
    /\ batch[1].shares # batch[2].shares
    /\ HasKey(portfolio.positions, BatchCode)


\* the step is an acquisition through record_trade
IsAcquisition == call'.op = "record_trade" /\ call'.action \in {"buy", "add"}
TradeAmount == RMul(R(call'.shares), call'.price)
TradeCommission ==
    LET byRate == RMul(TradeAmount, portfolio.commission_rate)
    IN  IF RLt(byRate, portfolio.min_commission)
        THEN portfolio.min_commission ELSE byRate
TooDear ==
    RLt(portfolio.available_cash, RAdd(TradeAmount, TradeCommission))

\* C4: an acquisition whose amount plus commission
\* (max(amount * commission_rate, min_commission)) exceeds the available cash
\* is refused with InsufficientCash; positions and cash stay as they were.
C4_UnaffordableRefused ==
    [][(IsAcquisition /\ TooDear)
       => /\ ret' = "InsufficientCash"
          /\ portfolio'.positions = portfolio.positions
          /\ portfolio'.available_cash = portfolio.available_cash]_vars

\* reached: with cash on the account, an acquisition costing more was refused
C4_Witness ==
    /\ call.op = "record_trade"
    /\ call.action \in {"buy", "add"}
    /\ ret = "InsufficientCash"
    /\ RLt(R(0), portfolio.available_cash)
    /\ RLt(portfolio.available_cash, RMul(R(call.shares), call.price))

\* C9: an accepted acquisition of n shares at price p takes n*p plus the
\* commission from the available cash and carries no stamp duty; from the
\* default account (cash 100000), 1000 shares at 1.50 leave cost price 1.50
\* and cash 98500 less the commission of 5.
C9_AcquisitionDebit ==
    [][(IsAcquisition /\ ~TooDear)
       => /\ portfolio'.available_cash =
               RSub(portfolio.available_cash,
                    RAdd(TradeAmount, TradeCommission))
          /\ ret' = "Trade" => trades'[Len(trades')].stamp_duty = R(0)
          /\ (/\ portfolio.available_cash = R(100000)
              /\ portfolio.positions = <<>>
              /\ portfolio.commission_rate = Rat(3, 10000)
              /\ portfolio.min_commission = R(5)
              /\ call'.shares = 1000 /\ call'.price = Rat(3, 2))
             => /\ Lookup(portfolio'.positions, call'.code).cost_price = Rat(3, 2)
                /\ portfolio'.available_cash = R(98495)]_vars

\* reached: the default account after buying 1000 shares at 1.50
C9_Witness ==
    /\ call.op = "record_trade"
    /\ call.action = "buy"
    /\ call.shares = 1000 /\ call.price = Rat(3, 2)
    /\ ret = "Trade"
    /\ Len(trades) = 1
    /\ portfolio.available_cash = R(98495)
    /\ SharesOf(portfolio, call.code) = 1000

----------------------------------------------------------------------------
(* Serialisation *)

\* the four risk parameters and the three fee parameters of an account
RiskFields == {"max_single_position_pct", "stop_loss_pct", "take_profit_pct",
               "max_total_position_pct"}
FeeFields == {"commission_rate", "stamp_duty_rate", "min_commission"}
\* the eight fields of a position
PositionFields == {"code", "name", "shares", "cost_price", "current_price",
                   "buy_date", "last_update", "notes"}
\* PortfolioConfig.from_dict(cfg.to_dict()), evaluated at `now`
RoundTrip(p, now) == from_dict(to_dict(p), now)

\* C11: the account read back from its own dictionary holds the same symbols,
\* the same eight fields for each of them, the same initial capital and
\* available cash, and the same risk and fee parameters.
C11_RoundTripKeepsAccount ==
    LET q == RoundTrip(portfolio, clock)
    IN  /\ Keys(q.positions) = Keys(portfolio.positions)
        /\ \A code \in Keys(portfolio.positions) : \A f \in PositionFields :
               Lookup(q.positions, code)[f] = Lookup(portfolio.positions, code)[f]
        /\ q.initial_capital = portfolio.initial_capital
        /\ q.available_cash = portfolio.available_cash
        /\ \A f \in RiskFields \cup FeeFields : q[f] = portfolio[f]

\* reached: an account with two symbols, a note, spent cash and its own fees
C11_Witness ==
    /\ Len(portfolio.positions) = 2
    /\ \E code \in Keys(portfolio.positions) :
          Lookup(portfolio.positions, code).notes = "dip"
    /\ portfolio.available_cash # R(100000)
    /\ portfolio.min_commission # R(5)
    /\ RoundTrip(portfolio, clock).positions = portfolio.positions

----------------------------------------------------------------------------
(* Risk evaluation: PortfolioManager.check_risk_alerts *)

\* PortfolioConfig.total_market_value: sum over the positions
RECURSIVE MarketValueUpTo(_, _)
MarketValueUpTo(ps, i) ==
    IF i = 0 THEN R(0) ELSE RAdd(MarketValueUpTo(ps, i - 1), market_value(ps[i].pos))
total_market_value(p) == MarketValueUpTo(p.positions, Len(p.positions))
\* PortfolioConfig.total_assets
total_assets(p) == RAdd(p.available_cash, total_market_value(p))
\* PortfolioConfig.position_ratio, in percent
position_ratio(p) ==
    IF total_assets(p) = R(0) THEN R(0)
    ELSE RMul(RDiv(total_market_value(p), total_assets(p)), R(100))

\* the conditions of check_risk_alerts, in the order it tests them
StopLossHit_Strict(p, pos) == RLt(profit_loss_pct(pos), RNeg(p.stop_loss_pct))
StopLossHit(p, pos) == RLe(profit_loss_pct(pos), RNeg(p.stop_loss_pct))
StopLossNear(p, pos) ==
    RLe(profit_loss_pct(pos), RNeg(RMul(p.stop_loss_pct, Rat(7, 10))))
TakeProfitHit(p, pos) == RLe(p.take_profit_pct, profit_loss_pct(pos))
TakeProfitNear(p, pos) ==
    RLe(RMul(p.take_profit_pct, Rat(8, 10)), profit_loss_pct(pos))
LimitReached_Reversed(p) == RLe(position_ratio(p), p.max_total_position_pct)
LimitReached_Strict(p) == RLt(p.max_total_position_pct, position_ratio(p))
LimitReached(p) == RLe(p.max_total_position_pct, position_ratio(p))

\* one alert dict; pct stands for the figure its message prints
Alert(type, level, code, name, pct) ==
    [type |-> type, level |-> level, code |-> code, name |-> name, pct |-> pct]

\* the body of the loop over the positions: if / elif, then if / elif
PositionAlerts(p, pos) ==
    LET x == profit_loss_pct(pos)
    IN  (IF StopLossHit(p, pos)
         THEN <<Alert("stop_loss", "danger", pos.code, pos.name, x)>>
         ELSE IF StopLossNear(p, pos)
         THEN <<Alert("stop_loss_warning", "warning", pos.code, pos.name, x)>>
         ELSE <<>>)
        \o
        (IF TakeProfitHit(p, pos)
         THEN <<Alert("take_profit", "success", pos.code, pos.name, x)>>
         ELSE IF TakeProfitNear(p, pos)
         THEN <<Alert("take_profit_warning", "info", pos.code, pos.name, x)>>
         ELSE <<>>)

RECURSIVE AlertsUpTo(_, _)
AlertsUpTo(p, i) ==
    IF i = 0 THEN <<>>
    ELSE AlertsUpTo(p, i - 1) \o PositionAlerts(p, p.positions[i].pos)

\* PortfolioManager.check_risk_alerts
check_risk_alerts(p) ==
    AlertsUpTo(p, Len(p.positions))
    \o (IF LimitReached(p)
        THEN <<Alert("position_limit", "warning", "", "TotalPosition",
                     position_ratio(p))>>
        ELSE <<>>)

\* Quotes that put a position bought at 1 on, between and beside the four
\* thresholds of the default risk parameters (-8, -5.6, 16 and 20 percent)
RiskQuotes == {Rat(23, 25), Rat(93, 100), Rat(118, 125), R(1),
               Rat(29, 25), Rat(59, 50), Rat(6, 5)}

\* Account documents of earlier runs: two symbols held at quoted prices with
\* the position ratio at exactly 80 percent; a closed account without cash,
\* or overdrawn by a fee (see C5), with the default position limit or with a
\* limit of zero
HeldConfig ==
    [DefaultConfig(0) EXCEPT
        !.available_cash = Rat(53, 100),
        !.positions =
           <<[key |-> "BBB",
              pos |-> Position("BBB", "Widget", 1, R(1), Rat(6, 5), 0, 0, "")],
             [key |-> "AAA",
              pos |-> Position("AAA", "Widget", 1, R(1), Rat(23, 25), 0, 0, "")]>>]
ClosedConfig(cash, limit) ==
    [DefaultConfig(0) EXCEPT !.available_cash = cash,
                             !.max_total_position_pct = limit]
RiskDisks ==
    InitialDisks \cup {Doc(to_dict(HeldConfig)),
                       Doc(to_dict(ClosedConfig(R(0), R(80)))),
                       Doc(to_dict(ClosedConfig(Rat(-1, 10), R(80)))),
                       Doc(to_dict(ClosedConfig(R(0), R(0))))}

InitRisk ==
    /\ disk \in RiskDisks
    /\ clock = 0
    /\ portfolio = load_config(disk, 0)
    /\ call = NoCall
    /\ ret = "None"
    /\ cause = "Loaded"
    /\ reported = [c \in Causes |-> {}]
    /\ trades = <<>>
    /\ steps = 0
    /\ batch = <<>>
    /\ todo = {}
    /\ alerts = <<>>
    /\ store = NoStore
    /\ reply = NoReply
    /\ peer = NoPeer

\* check_risk_alerts followed by a save it does not make
CheckRiskAlerts_Saving ==
    /\ steps < MaxSteps
    /\ LET s == save_config(portfolio, disk, clock + 1, "ok")
       IN  portfolio' = s.portfolio /\ disk' = s.disk
    /\ alerts' = check_risk_alerts(portfolio)
    /\ call' = [op |-> "check_risk_alerts", after |-> call.op]
    /\ ret' = "List"
    /\ cause' = "Evaluated"
    /\ steps' = steps + 1
    /\ UNCHANGED <<clock, reported, trades, batch, todo, store, reply, peer>>

\* PortfolioManager.check_risk_alerts
CheckRiskAlerts ==
    /\ steps < MaxSteps
    /\ alerts' = check_risk_alerts(portfolio)
    /\ call' = [op |-> "check_risk_alerts", after |-> call.op]
    /\ ret' = "List"
    /\ cause' = "Evaluated"
    /\ steps' = steps + 1
    /\ UNCHANGED <<portfolio, disk, clock, reported, trades, batch, todo, store, reply, peer>>

\* quotes arriving one symbol at a time
UpdatePricesRisk == UpdatePricesFrom(RiskQuotes, 1)

NextRisk == UpdatePricesRisk \/ CheckRiskAlerts

SpecRisk == InitRisk /\ [][NextRisk]_vars

\* C12: check_risk_alerts leaves the positions, the cash, the risk parameters
\* and the persisted document as they were, and a second call made right after
\* a first one returns the same list of alerts.
C12_RiskCheckIsPure ==
    [][call'.op = "check_risk_alerts" =>
          /\ portfolio' = portfolio
          /\ disk' = disk
          /\ call.op = "check_risk_alerts" => alerts' = alerts]_vars

\* reached: two calls in a row, both returning alerts
C12_Witness ==
    /\ call.op = "check_risk_alerts"
    /\ call.after = "check_risk_alerts"
    /\ Len(alerts) >= 2

\* the kinds of alert the last check_risk_alerts call returned for a symbol
KindsFor(code) == {alerts[i].type : i \in {j \in 1..Len(alerts) : alerts[j].code = code}}

\* C13: for every held position with profit-loss percentage x, the evaluator
\* returns stop_loss iff x <= -stopLossPct, stop_loss_warning iff
\* -stopLossPct < x <= -(0.7 * stopLossPct), take_profit iff x >= takeProfitPct,
\* take_profit_warning iff 0.8 * takeProfitPct <= x < takeProfitPct; so x equal
\* to -stopLossPct gives stop_loss, and no position gets an alert together with
\* the warning of the same side.
C13_AlertThresholds ==
    call.op = "check_risk_alerts" =>
       \A code \in Keys(portfolio.positions) :
          LET x == profit_loss_pct(Lookup(portfolio.positions, code))
              stop == RNeg(portfolio.stop_loss_pct)
              nearStop == RNeg(RMul(Rat(7, 10), portfolio.stop_loss_pct))
              take == portfolio.take_profit_pct
              nearTake == RMul(Rat(8, 10), portfolio.take_profit_pct)
              kinds == KindsFor(code)
          IN  /\ "stop_loss" \in kinds <=> (RLt(x, stop) \/ x = stop)
              /\ "stop_loss_warning" \in kinds <=>
                    (RLt(stop, x) /\ (RLt(x, nearStop) \/ x = nearStop))
              /\ "take_profit" \in kinds <=> (RLt(take, x) \/ x = take)
              /\ "take_profit_warning" \in kinds <=>
                    ((RLt(nearTake, x) \/ x = nearTake) /\ RLt(x, take))
              /\ ~({"stop_loss", "stop_loss_warning"} \subseteq kinds)
              /\ ~({"take_profit", "take_profit_warning"} \subseteq kinds)

\* reached: a check with one position exactly on the stop-loss line (alerted)
\* and another between the near-take-profit line and the take-profit line
C13_Witness ==
    /\ call.op = "check_risk_alerts"
    /\ \E code \in Keys(portfolio.positions) :
          /\ profit_loss_pct(Lookup(portfolio.positions, code))
                = RNeg(portfolio.stop_loss_pct)
          /\ KindsFor(code) = {"stop_loss"}
    /\ \E code \in Keys(portfolio.positions) :
          /\ profit_loss_pct(Lookup(portfolio.positions, code)) = R(18)
          /\ KindsFor(code) = {"take_profit_warning"}

\* As first stated, C14: check_risk_alerts on an account with zero positions
\* returns the empty list for every available cash and every risk parameter.
C14_EmptyAccountNoAlerts ==
    (call.op = "check_risk_alerts" /\ portfolio.positions = <<>>) => alerts = <<>>

\* C14: check_risk_alerts on an account with zero positions returns the empty
\* list for every available cash, whenever max_total_position_pct is above zero.
C14_EmptyAccountNoAlertsUnderLimit ==
    (/\ call.op = "check_risk_alerts"
     /\ portfolio.positions = <<>>
     /\ RLt(R(0), portfolio.max_total_position_pct)) => alerts = <<>>

\* reached: a check of an account with no position and no cash (total assets 0)
C14_Witness ==
    /\ call.op = "check_risk_alerts"
    /\ portfolio.positions = <<>>
    /\ portfolio.available_cash = R(0)
    /\ RLt(R(0), portfolio.max_total_position_pct)
    /\ alerts = <<>>

\* where the last check_risk_alerts call put its position_limit alerts
LimitAt == {i \in 1..Len(alerts) : alerts[i].type = "position_limit"}

\* C15: the position-level alerts come in the iteration order of the position
\* map; the position_limit alert comes at most once, last, with an empty
\* symbol, and exactly when position ratio % >= max_total_position_pct.
C15_AlertOrder ==
    call.op = "check_risk_alerts" =>
       /\ \A i, j \in (1..Len(alerts)) \ LimitAt :
             i < j => IndexOf(portfolio.positions, alerts[i].code)
                        <= IndexOf(portfolio.positions, alerts[j].code)
       /\ Cardinality(LimitAt) <= 1
       /\ \A i \in LimitAt : i = Len(alerts) /\ alerts[i].code = ""
       /\ LimitAt # {} <=>
             ~RLt(position_ratio(portfolio), portfolio.max_total_position_pct)

\* reached: alerts for two symbols, the later-bought first in the alphabet,
\* then the position_limit alert with the ratio exactly on the limit
C15_Witness ==
    /\ call.op = "check_risk_alerts"
    /\ Len(alerts) = 3
    /\ alerts[1].code = "BBB" /\ alerts[2].code = "AAA"
    /\ LimitAt = {3}
    /\ position_ratio(portfolio) = portfolio.max_total_position_pct

----------------------------------------------------------------------------
(* Quotes: update_prices and the price command of src/trade.py *)

\* main, price command: positions[code].current_price = current_price
set_current_price(p, code, price) ==
    [p EXCEPT !.positions[IndexOf(p.positions, code)].pos.current_price = price]

\* main of src/trade.py run with the price command: a manager is built from
\* the document, the quote is stored if the symbol is held, the save result is
\* not looked at
PriceCommand ==
    /\ steps < MaxSteps
    /\ \E code \in Codes, price \in QuoteInputs, outcome \in SaveOutcomes :
          LET pm == load_config(disk, clock)
              s == save_config(set_current_price(pm, code, price), disk, clock,
                               outcome)
          IN  /\ call' = [op |-> "price", code |-> code, price |-> price]
              /\ IF HasKey(pm.positions, code)
                 THEN /\ portfolio' = s.portfolio
                      /\ disk' = s.disk
                      /\ ret' = "PriceUpdated"
                      /\ cause' = SaveCause(s.ok)
                 ELSE /\ portfolio' = pm
                      /\ disk' = disk
                      /\ ret' = "NoSuchPosition"
                      /\ cause' = "NotHeld"
    /\ steps' = steps + 1
    /\ UNCHANGED <<clock, reported, trades, batch, todo, aside>>

NextQuote == UpdatePrices \/ PriceCommand \/ Tick

SpecQuote == Init /\ [][NextQuote]_vars

\* the account a quote update starts from: the manager's own, or for the
\* price command the one its new manager loads
QuoteBase == IF call'.op = "price" THEN load_config(disk, clock) ELSE portfolio
\* the symbols the quote update names
QuotedNow == IF call'.op = "price" THEN {call'.code} ELSE DOMAIN call'.prices

----------------------------------------------------------------------------
(* Persistence *)

\* the operations that end in save_config
Mutating == {"add_position", "reduce_position", "update_prices"}

\* C17: when the write of the document fails during add_position,
\* reduce_position or update_prices, the caller is given a failure indication:
\* no such operation returns success, or returns nothing, after a save that did
\* not succeed (the mutation made in memory stays applied).
C17_SaveFailureIsReported ==
    (call.op \in Mutating /\ cause = "PersistenceFailure") => ret = "False"

----------------------------------------------------------------------------
(* The read-only web API: PortfolioAPI of src/web/portfolio_api.py *)

\* a parsed JSON value: an object (a dict, here a function of its keys) or not
EmptyDict == <<>>
Parsed(isDict, data) == [isDict |-> isDict, data |-> data]

\* PortfolioAPI._load_json: {} for a missing file and for one json.load rejects
load_json(file) ==
    CASE file.kind = "doc" -> Parsed(TRUE, file.data)
      [] file.kind = "misshapen" -> Parsed(FALSE, EmptyDict)
      [] OTHER -> Parsed(TRUE, EmptyDict)

\* what a call gives its caller: a value, or the exception it raised
Returned(value) == [raised |-> FALSE, value |-> value]
Raised(exception) == [raised |-> TRUE, value |-> exception]

\* data.get(key, default) on what _load_json returned
GetOf(parsed, key, default) ==
    IF parsed.isDict THEN Returned(Get(parsed.data, key, default))
    ELSE Raised("AttributeError")

\* PortfolioAPI.get_trades
get_trades(st) == GetOf(load_json(st.trades), "trades", <<>>)
\* PortfolioAPI.get_snapshots
get_snapshots(st) == GetOf(load_json(st.snapshots), "snapshots", EmptyDict)

\* Snapshot dates stand for 'YYYY-MM-DD' strings: day numbers, whose order is
\* the order of the strings, DaysPerMonth of them sharing the prefix date[:7]
DaysPerMonth == 2
MonthOf(date) == (date - 1) \div DaysPerMonth
\* the number of records get_ai_accuracy returns at most
RecordsKept == 30

\* sorted(keys)
RECURSIVE Sorted(_)
Sorted(S) ==
    IF S = {} THEN <<>>
    ELSE LET m == CHOOSE x \in S : \A y \in S : x <= y
         IN  <<m>> \o Sorted(S \ {m})

\* seq[-n:] for n >= 0; -0 is 0, so seq[-0:] is the whole of seq
Last(seq, n) ==
    IF n = 0 THEN seq
    ELSE SubSeq(seq, IF Len(seq) > n THEN Len(seq) - n + 1 ELSE 1, Len(seq))

\* get_ai_accuracy: is_up, with the flat day counted as a rise in the twin
IsUp_OrFlat(next_day_return) == RLe(R(0), next_day_return)
IsUp(next_day_return) == RLt(R(0), next_day_return)

\* get_ai_accuracy: the two conditions under which a date is graded
HasAssets(current_assets) == RLt(R(0), current_assets)
HadPosition(positions_today) == Cardinality(positions_today) > 0

\* get_ai_accuracy: the first i rounds of the loop over sorted_dates[:-1]
RECURSIVE RecordsUpTo(_, _, _)
RecordsUpTo(snapshots, sorted_dates, i) ==
    IF i = 0 THEN <<>>
    ELSE
      LET date == sorted_dates[i]
          next_date == sorted_dates[i + 1]
          current_assets == Get(snapshots[date], "total_assets", R(0))
          next_assets == Get(snapshots[next_date], "total_assets", R(0))
          next_day_return ==
              RMul(RDiv(RSub(next_assets, current_assets), current_assets), R(100))
          positions_today == Get(snapshots[date], "positions_snapshot", {})
      IN  RecordsUpTo(snapshots, sorted_dates, i - 1)
          \o (IF HasAssets(current_assets) /\ HadPosition(positions_today)
              THEN <<[date |-> date, next_date |-> next_date,
                      prediction |-> "hold",
                      next_day_return |-> next_day_return,
                      is_correct |-> IsUp(next_day_return),
                      total_assets |-> current_assets]>>
              ELSE <<>>)

\* correct / total * 100 if total > 0 else 0
Rate(correct, total) ==
    IF total > 0 THEN RMul(RDiv(R(correct), R(total)), R(100)) ELSE R(0)
Correct(records) == Cardinality({i \in DOMAIN records : records[i].is_correct})

\* the per-month totals taken over the returned records only
MonthlyAccuracy_OfReturned(records) ==
    LET kept == Last(records, RecordsKept)
        months == Sorted({MonthOf(kept[i].date) : i \in DOMAIN kept})
        In(month) == SelectSeq(kept, LAMBDA r : MonthOf(r.date) = month)
    IN  [k \in 1..Len(months) |->
           [month |-> months[k], total |-> Len(In(months[k])),
            correct |-> Correct(In(months[k])),
            accuracy |-> Rate(Correct(In(months[k])), Len(In(months[k])))]]

\* get_ai_accuracy: the per-month totals, in the order of the months
MonthlyAccuracy(records) ==
    LET months == Sorted({MonthOf(records[i].date) : i \in DOMAIN records})
        In(month) == SelectSeq(records, LAMBDA r : MonthOf(r.date) = month)
    IN  [k \in 1..Len(months) |->
           [month |-> months[k], total |-> Len(In(months[k])),
            correct |-> Correct(In(months[k])),
            accuracy |-> Rate(Correct(In(months[k])), Len(In(months[k])))]]

\* PortfolioAPI.get_ai_accuracy
get_ai_accuracy(st) ==
    LET got == get_snapshots(st)
        snapshots == got.value
        sorted_dates == Sorted(DOMAIN snapshots)
        accuracy_records ==
            RecordsUpTo(snapshots, sorted_dates,
                        IF Len(sorted_dates) = 0 THEN 0 ELSE Len(sorted_dates) - 1)
    IN  IF got.raised THEN got
        ELSE Returned(
               [summary |->
                   [total_predictions |-> Len(accuracy_records),
                    correct_predictions |-> Correct(accuracy_records),
                    accuracy_rate |-> Rate(Correct(accuracy_records),
                                           Len(accuracy_records))],
                records |-> Last(accuracy_records, RecordsKept),
                monthly_accuracy |-> MonthlyAccuracy(accuracy_records)])

\* Inputs: the files the API may find
DateInputs == 1 .. MaxDates
\* total assets of a day: cash plus market value, negative for an overdrawn
\* account whose holdings have no quote yet
AssetInputs == {R(-100), R(0), R(100), R(102)}
HoldingInputs == {{}, {"AAA"}}
SnapshotInputs == [total_assets : AssetInputs, positions_snapshot : HoldingInputs]
SnapshotSeries == UNION {[D -> SnapshotInputs] : D \in SUBSET DateInputs}
\* a series longer than the records returned: a position held every day,
\* total assets going up and down by turns
LongSeries ==
    [d \in 1 .. RecordsKept + 2 |->
        [total_assets |-> IF d % 2 = 1 THEN R(100) ELSE R(102),
         positions_snapshot |-> {"AAA"}]]
BadFiles == {Missing, Corrupt, Misshapen}
SnapshotFiles ==
    BadFiles \cup {Doc([snapshots |-> f]) : f \in SnapshotSeries \cup {LongSeries}}
TradeFiles ==
    BadFiles \cup {Doc([trades |-> <<Trade(0, "AAA", "Widget", "buy", 1, R(1), R(5),
                                           R(0), "")>>])}
AccountFiles == BadFiles \cup {Doc(to_dict(SpentConfig))}

\* PortfolioManager.__init__ and PortfolioAPI.__init__ over the same data_dir
InitApi ==
    /\ disk \in AccountFiles
    /\ clock = 0
    /\ portfolio = load_config(disk, 0)
    /\ call = NoCall
    /\ ret = "None"
    /\ cause = "Loaded"
    /\ reported = [c \in Causes |-> {}]
    /\ trades = <<>>
    /\ steps = 0
    /\ batch = <<>>
    /\ todo = {}
    /\ alerts = <<>>
    /\ store \in [trades : TradeFiles, snapshots : SnapshotFiles]
    /\ reply = NoReply
    /\ peer = NoPeer

\* the reply of an API call
Reply(op, result) == [op |-> op, raised |-> result.raised, value |-> result.value]

\* PortfolioAPI.get_trades
GetTrades ==
    /\ reply' = Reply("get_trades", get_trades(store))
    /\ UNCHANGED <<portfolio, disk, clock, call, ret, cause, reported, trades, steps,
                   batch, todo, alerts, store, peer>>

\* PortfolioAPI.get_snapshots
GetSnapshots ==
    /\ reply' = Reply("get_snapshots", get_snapshots(store))
    /\ UNCHANGED <<portfolio, disk, clock, call, ret, cause, reported, trades, steps,
                   batch, todo, alerts, store, peer>>

\* PortfolioAPI.get_ai_accuracy
GetAiAccuracy ==
    /\ reply' = Reply("get_ai_accuracy", get_ai_accuracy(store))
    /\ UNCHANGED <<portfolio, disk, clock, call, ret, cause, reported, trades, steps,
                   batch, todo, alerts, store, peer>>

NextApi == GetTrades \/ GetSnapshots \/ GetAiAccuracy

SpecApi == InitApi /\ [][NextApi]_vars

\* the account of PortfolioConfig() apart from its timestamps
IsDefaultAccount(p) ==
    /\ p.initial_capital = R(100000) /\ p.available_cash = R(100000)
    /\ p.positions = <<>>
    /\ p.max_single_position_pct = R(30) /\ p.stop_loss_pct = R(8)
    /\ p.take_profit_pct = R(20) /\ p.max_total_position_pct = R(80)
    /\ p.commission_rate = Rat(3, 10000) /\ p.stamp_duty_rate = Rat(1, 1000)
    /\ p.min_commission = R(5)

\* C18: an account document that exists and does not parse into the expected
\* shape never makes the load raise: the manager starts with the default
\* account; a missing or malformed trades or snapshot document is read as an
\* empty journal or an empty snapshot series.
C18_MalformedReadsAsEmpty ==
    /\ disk.kind \in {"corrupt", "misshapen"} => IsDefaultAccount(portfolio)
    /\ (reply.op = "get_trades" /\ store.trades.kind # "doc")
          => (~reply.raised /\ reply.value = <<>>)
    /\ (reply.op = "get_snapshots" /\ store.snapshots.kind # "doc")
          => (~reply.raised /\ reply.value = EmptyDict)

\* the ledger state of an account: everything but its two timestamps
Ledger(p) == [f \in DOMAIN p \ {"created_at", "updated_at"} |-> p[f]]

\* C19: after an add_position, reduce_position or update_prices whose save
\* succeeded, the persisted document equals the account in memory (positions,
\* cash, parameters), so a new manager loaded from it sees the same ledger.
C19_SavedDocumentMatchesMemory ==
    (call.op \in Mutating /\ cause = "Saved") =>
       /\ disk.kind = "doc"
       /\ Ledger(disk.data) = Ledger(to_dict(portfolio))
       /\ Ledger(load_config(disk, clock)) = Ledger(portfolio)

\* reached: a saved sale that left one symbol of two, with cash credited
C19_Witness ==
    /\ call.op = "reduce_position"
    /\ cause = "Saved"
    /\ Keys(portfolio.positions) = {"BBB"}
    /\ portfolio.available_cash # R(0)
    /\ Ledger(load_config(disk, clock)) = Ledger(portfolio)

\* the snapshot series the API reads when the file holds one
SeriesRead ==
    IF store.snapshots.kind = "doc" THEN store.snapshots.data.snapshots
    ELSE EmptyDict

\* C20: over the snapshot dates sorted ascending, the date at index i is graded
\* (counted in total_predictions) iff it is not the last date, its total assets
\* are not 0 and its positions_snapshot is not empty; its next_day_return is
\* computed against the date at index i + 1.
C20_GradingSet ==
    (reply.op = "get_ai_accuracy" /\ ~reply.raised) =>
       LET dates == Sorted(DOMAIN SeriesRead)
           Assets(i) == SeriesRead[dates[i]].total_assets
           Graded == {i \in 1..Len(dates) :
                        /\ i < Len(dates)
                        /\ Assets(i) # R(0)
                        /\ SeriesRead[dates[i]].positions_snapshot # {}}
           records == reply.value.records
       IN  /\ reply.value.summary.total_predictions = Cardinality(Graded)
           /\ {records[k].date : k \in DOMAIN records} = {dates[i] : i \in Graded}
           /\ \A k \in DOMAIN records : \E i \in Graded :
                 /\ records[k].date = dates[i]
                 /\ records[k].next_date = dates[i + 1]
                 /\ records[k].next_day_return
                      = RMul(RDiv(RSub(Assets(i + 1), Assets(i)), Assets(i)), R(100))

\* the total assets the series read records for a date
AssetsOn(date) == SeriesRead[date].total_assets

GradedDates ==
    {d \in DOMAIN SeriesRead :
        /\ \E later \in DOMAIN SeriesRead : d < later
        /\ RLt(R(0), AssetsOn(d))
        /\ SeriesRead[d].positions_snapshot # {}}
\* the date that follows d in the series read
NextDate(d) ==
    CHOOSE n \in DOMAIN SeriesRead :
       d < n /\ \A m \in DOMAIN SeriesRead : d < m => n <= m

RECURSIVE SumOf(_, _, _)
SumOf(seq, field, i) == IF i = 0 THEN 0 ELSE SumOf(seq, field, i - 1) + seq[i][field]

\* C22: the monthly breakdown partitions the graded records by the month of
\* the graded date: every graded record is counted in exactly one month, the
\* per-month totals add up to total_predictions and the per-month correct
\* counts to correct_predictions, also when more records were graded than the
\* 30 returned; the months are listed in ascending order.
C22_MonthlyPartition ==
    (reply.op = "get_ai_accuracy" /\ ~reply.raised) =>
       LET monthly == reply.value.monthly_accuracy
           summary == reply.value.summary
       IN  /\ \A d \in GradedDates :
                 Cardinality({k \in DOMAIN monthly : monthly[k].month = MonthOf(d)}) = 1
           /\ \A k \in DOMAIN monthly :
                 /\ monthly[k].total
                      = Cardinality({d \in GradedDates : MonthOf(d) = monthly[k].month})
                 /\ monthly[k].correct
                      = Cardinality({d \in GradedDates :
                                       /\ MonthOf(d) = monthly[k].month
                                       /\ RLt(AssetsOn(d), AssetsOn(NextDate(d)))})
                 /\ monthly[k].total > 0
           /\ SumOf(monthly, "total", Len(monthly)) = summary.total_predictions
           /\ SumOf(monthly, "correct", Len(monthly)) = summary.correct_predictions
           /\ \A j, k \in DOMAIN monthly : j < k => monthly[j].month < monthly[k].month

\* reached: a backtest that graded more days than the records it returns
C22_Witness ==
    /\ reply.op = "get_ai_accuracy" /\ ~reply.raised
    /\ reply.value.summary.total_predictions > Len(reply.value.records)
    /\ Len(reply.value.records) = RecordsKept
    /\ Len(reply.value.monthly_accuracy) > 1

----------------------------------------------------------------------------
(* The snapshot recorder: PortfolioManager.take_daily_snapshot, which the   *)
(* snapshot command of src/trade.py calls                                   *)

\* PortfolioConfig.total_return_pct
total_return_pct(p) ==
    IF p.initial_capital = R(0) THEN R(0)
    ELSE RMul(RDiv(RSub(total_assets(p), p.initial_capital), p.initial_capital),
              R(100))

\* the snapshot series a snapshot file holds, empty when it holds none
SeriesOf(file) == IF file.kind = "doc" THEN file.data.snapshots ELSE EmptyDict
\* the latest date of the series before today, as <<date>>, or <<>>
PreviousDay(series, today) ==
    LET before == {d \in DOMAIN series : d < today}
    IN  IF before = {} THEN <<>>
        ELSE <<CHOOSE d \in before : \A e \in before : e <= d>>

\* daily return % dividing by today's total assets
DailyReturn_OfToday(daily_profit_loss, previous_assets, today_assets) ==
    IF previous_assets = R(0) \/ today_assets = R(0) THEN R(0)
    ELSE RMul(RDiv(daily_profit_loss, today_assets), R(100))
\* daily return %: daily profit/loss over the previous day's total assets
DailyReturn(daily_profit_loss, previous_assets, today_assets) ==
    IF previous_assets = R(0) THEN R(0)
    ELSE RMul(RDiv(daily_profit_loss, previous_assets), R(100))

\* the DailySnapshot take_daily_snapshot builds for today
DailySnapshot(p, series, today) ==
    LET prev == PreviousDay(series, today)
        assets == total_assets(p)
        daily_profit_loss ==
            IF prev = <<>> THEN R(0) ELSE RSub(assets, series[prev[1]].total_assets)
    IN  [date |-> today, total_assets |-> assets,
         daily_profit_loss |-> daily_profit_loss,
         daily_return_pct |->
            IF prev = <<>> THEN R(0)
            ELSE DailyReturn(daily_profit_loss, series[prev[1]].total_assets, assets),
         total_return_pct |-> total_return_pct(p),
         positions_snapshot |-> Keys(p.positions)]

\* the series with today's entry written or overwritten
take_daily_snapshot(p, series, today) ==
    [d \in DOMAIN series \cup {today} |->
        IF d = today THEN DailySnapshot(p, series, today) ELSE series[d]]

\* An account worth 100000: 98000 in cash and 1000 shares quoted at 2
RoundConfig ==
    [DefaultConfig(0) EXCEPT
        !.available_cash = R(98000),
        !.positions =
           <<[key |-> "AAA",
              pos |-> Position("AAA", "Widget", 1000, R(2), R(2), 0, 0, "")]>>]
SnapDisks == {Doc(to_dict(RoundConfig)), Doc(to_dict(SpentConfig))}
SnapQuotes == {R(2), R(4)}

InitSnap ==
    /\ disk \in SnapDisks
    /\ clock = 0
    /\ portfolio = load_config(disk, 0)
    /\ call = NoCall
    /\ ret = "None"
    /\ cause = "Loaded"
    /\ reported = [c \in Causes |-> {}]
    /\ trades = <<>>
    /\ steps = 0
    /\ batch = <<>>
    /\ todo = {}
    /\ alerts = <<>>
    /\ store = NoStore
    /\ reply = NoReply
    /\ peer = NoPeer

\* PortfolioManager.take_daily_snapshot: today's entry is written to the
\* snapshot file, or the write fails and the file stays
TakeDailySnapshot ==
    /\ \E written \in BOOLEAN :
          LET series == take_daily_snapshot(portfolio, SeriesOf(store.snapshots),
                                            DateOf(clock))
          IN  /\ store' = IF written
                          THEN [store EXCEPT !.snapshots = Doc([snapshots |-> series])]
                          ELSE store
              /\ ret' = "DailySnapshot"
              /\ cause' = SaveCause(written)
    /\ call' = [op |-> "take_daily_snapshot", date |-> DateOf(clock)]
    /\ UNCHANGED <<portfolio, disk, clock, reported, trades, steps, batch, todo,
                   alerts, reply, peer>>

\* quotes arriving for one symbol at a time
UpdatePricesSnap == UpdatePricesFrom(SnapQuotes, 1)

\* the next trading day begins
NextDay ==
    /\ DateOf(clock) < MaxDates
    /\ clock' = clock + TicksPerDay
    /\ UNCHANGED <<portfolio, disk, call, ret, cause, reported, trades, steps, batch,
                   todo, aside>>

NextSnap == TakeDailySnapshot \/ UpdatePricesSnap \/ NextDay

SpecSnap == InitSnap /\ [][NextSnap]_vars

\* today's entry of the snapshot file, and the entry of the day before it
EntryToday == SeriesOf(store.snapshots)[DateOf(clock)]
EntryBefore == PreviousDay(SeriesOf(store.snapshots), DateOf(clock))
Snapped == call.op = "take_daily_snapshot" /\ cause = "Saved"
                /\ call.date = DateOf(clock)

----------------------------------------------------------------------------
(* The most recent trades: get_trade_history and the trades command *)

\* seq[::-1]
RECURSIVE Reversed(_)
Reversed(seq) ==
    IF seq = <<>> THEN <<>> ELSE Reversed(Tail(seq)) \o <<Head(seq)>>

\* PortfolioAPI.get_trade_history
get_trade_history(st, limit) ==
    LET got == get_trades(st)
    IN  IF got.raised THEN got ELSE Returned(Reversed(Last(got.value, limit)))

\* PortfolioManager.load_trades: the journal in insertion order
load_trades(st) == IF st.trades.kind = "doc" THEN st.trades.data.trades ELSE <<>>
\* main, trades command: pm.load_trades()[-args.num:]
trades_command(st, num) == Returned(Last(load_trades(st), num))

\* the journal after n trades, the i-th of i shares
Journal(n) ==
    [i \in 1..n |-> Trade(i, "AAA", "Widget", "buy", i, R(1), R(5), R(0), "")]
JournalFiles == BadFiles \cup {Doc([trades |-> Journal(n)]) : n \in 0 .. MaxJournal}
LimitInputs == 0 .. MaxJournal + 1

InitJournal ==
    /\ disk = Missing
    /\ clock = 0
    /\ portfolio = load_config(disk, 0)
    /\ call = NoCall
    /\ ret = "None"
    /\ cause = "Loaded"
    /\ reported = [c \in Causes |-> {}]
    /\ trades = <<>>
    /\ steps = 0
    /\ batch = <<>>
    /\ todo = {}
    /\ alerts = <<>>
    /\ store \in [trades : JournalFiles, snapshots : {Missing}]
    /\ reply = NoReply
    /\ peer = NoPeer

\* PortfolioAPI.get_trade_history
GetTradeHistory ==
    /\ \E limit \in LimitInputs :
          LET r == get_trade_history(store, limit)
          IN  reply' = [op |-> "get_trade_history", limit |-> limit,
                        raised |-> r.raised, value |-> r.value]
    /\ UNCHANGED <<portfolio, disk, clock, call, ret, cause, reported, trades, steps,
                   batch, todo, alerts, store, peer>>

\* main of src/trade.py run with the trades command
TradesCommand ==
    /\ \E num \in LimitInputs :
          LET r == trades_command(store, num)
          IN  reply' = [op |-> "trades", limit |-> num,
                        raised |-> r.raised, value |-> r.value]
    /\ UNCHANGED <<portfolio, disk, clock, call, ret, cause, reported, trades, steps,
                   batch, todo, alerts, store, peer>>

NextJournal == GetTrades \/ GetTradeHistory \/ TradesCommand

SpecJournal == InitJournal /\ [][NextJournal]_vars

\* the journal the file holds, and its last n trades
JournalRead == IF store.trades.kind = "doc" THEN store.trades.data.trades ELSE <<>>
Newest(n) ==
    LET size == IF n < Len(JournalRead) THEN n ELSE Len(JournalRead)
    IN  [i \in 1..size |-> JournalRead[Len(JournalRead) - size + i]]

\* C24: for every journal and every limit N >= 0, get_trade_history(N)
\* returns exactly min(N, len(journal)) trades, the last ones inserted, newest
\* first, and the trades command with -n N shows the same trades in insertion
\* order.
C24_RecentTradesAreSuffix ==
    /\ (reply.op = "get_trade_history" /\ ~reply.raised) =>
          LET want == Newest(reply.limit)
          IN  reply.value = [i \in 1..Len(want) |-> want[Len(want) + 1 - i]]
    /\ (reply.op = "trades" /\ ~reply.raised) => reply.value = Newest(reply.limit)

----------------------------------------------------------------------------
(* Partial disposals: the cost basis of what is left *)

\* An account holding three shares bought at 1 and now quoted at 3/2
LotConfig ==
    [DefaultConfig(0) EXCEPT !.positions =
        <<[key |-> "AAA",
           pos |-> Position("AAA", "Widget", 3, R(1), Rat(3, 2), 0, 0, "")]>>]

\* PortfolioManager.__init__ on that account
InitLot ==
    /\ disk = Doc(to_dict(LotConfig))
    /\ clock = 0
    /\ portfolio = load_config(disk, 0)
    /\ call = NoCall
    /\ ret = "None"
    /\ cause = "Loaded"
    /\ reported = [c \in Causes |-> {}]
    /\ trades = <<>>
    /\ steps = 0
    /\ batch = <<>>
    /\ todo = {}
    /\ alerts = <<>>
    /\ store = NoStore
    /\ reply = NoReply
    /\ peer = NoPeer

NextLot == AddPosition \/ ReducePosition

SpecLot == InitLot /\ [][NextLot]_vars

\* the step is a disposal of part of a held position that was carried out
PartialDisposal ==
    /\ call'.op = "reduce_position"
    /\ steps' = steps + 1
    /\ cause' \in {"Saved", "PersistenceFailure"}
    /\ HasKey(portfolio.positions, call'.code)
    /\ 0 < call'.shares
    /\ call'.shares < Lookup(portfolio.positions, call'.code).shares
\* the step is an acquisition of more of a held position
FurtherAcquisition ==
    /\ call'.op = "add_position"
    /\ steps' = steps + 1
    /\ HasKey(portfolio.positions, call'.code)
    /\ Lookup(portfolio.positions, call'.code).shares + call'.shares > 0

\* C25: a partial disposal (0 < n < held shares) leaves the cost price of the
\* remaining position unchanged, so the cost taken out of the ledger is n
\* times the pre-disposal cost price whatever the sell price and the current
\* price are, and a later acquisition averages against that unchanged cost
\* price.
C25_PartialDisposalKeepsCost ==
    [][ /\ PartialDisposal =>
            LET before == Lookup(portfolio.positions, call'.code)
            IN  /\ HasKey(portfolio'.positions, call'.code)
                /\ LET after == Lookup(portfolio'.positions, call'.code)
                   IN  /\ after.cost_price = before.cost_price
                       /\ after.shares = before.shares - call'.shares
                       /\ after.current_price = before.current_price
                       /\ RSub(cost_amount(before), cost_amount(after))
                            = RMul(R(call'.shares), before.cost_price)
        /\ FurtherAcquisition =>
            LET before == Lookup(portfolio.positions, call'.code)
                after == Lookup(portfolio'.positions, call'.code)
            IN  /\ after.shares = before.shares + call'.shares
                /\ RMul(after.cost_price, R(after.shares))
                     = RAdd(RMul(before.cost_price, R(before.shares)),
                            RMul(call'.price, R(call'.shares)))
      ]_vars
\* one of three shares costing 1 was sold at 3/2 and one was then bought at
\* 3/2: three shares are held at (2 * 1 + 3/2) / 3 = 7/6
C25_Witness ==
    /\ steps = 2
    /\ call.op = "add_position"
    /\ call.shares = 1
    /\ call.price = Rat(3, 2)
    /\ HasKey(portfolio.positions, "AAA")
    /\ Lookup(portfolio.positions, "AAA").shares = 3
    /\ Lookup(portfolio.positions, "AAA").cost_price = Rat(7, 6)

----------------------------------------------------------------------------
(* What a reader of the account document sees around a save *)

\* the account a reader obtains from the document: a second
\* PortfolioManager._load_config
ReaderLoads(d, now) == Ledger(load_config(d, now))

\* C26: no partial-commit state of the account document is observable: after
\* a mutating operation's save, also one that failed part-way, a reader
\* loading the document obtains either the complete pre-operation account or
\* the complete post-operation account, never an empty, truncated or default
\* one.
C26_NoPartialCommit ==
    [][ (call'.op \in Mutating /\ steps' = steps + 1) =>
           \/ ReaderLoads(disk', clock') = ReaderLoads(disk, clock)
           \/ ReaderLoads(disk', clock') = Ledger(portfolio')
      ]_vars

----------------------------------------------------------------------------
(* Two managers on one account document *)

\* (a manager that read the document again before each mutation)
InMemory_Reread(held, d, now) == load_config(d, now)

\* self.portfolio: the account a manager mutates is the one it loaded when it
\* was constructed; the document is not read again
InMemory(held, d, now) == held

\* two PortfolioManager.__init__ on the same document
InitTwo ==
    /\ disk \in InitialDisks
    /\ clock = 0
    /\ portfolio = load_config(disk, 0)
    /\ call = NoCall
    /\ ret = "None"
    /\ cause = "Loaded"
    /\ reported = [c \in Causes |-> {}]
    /\ trades = <<>>
    /\ steps = 0
    /\ batch = <<>>
    /\ todo = {}
    /\ alerts = <<>>
    /\ store = NoStore
    /\ reply = NoReply
    /\ peer = load_config(disk, 0)

\* PortfolioManager.add_position of the first manager
FirstAddPosition ==
    /\ steps < MaxSteps
    /\ \E code \in Codes, name \in Names, shares \in ShareInputs,
          cost_price \in PriceInputs, outcome \in SaveOutcomes :
          LET p1 == add_position(InMemory(portfolio, disk, clock), code, name,
                                 shares, cost_price, "", clock)
              s == save_config(p1, disk, clock, outcome)
          IN  /\ portfolio' = s.portfolio
              /\ disk' = s.disk
              /\ ret' = PyBool(s.ok)
              /\ cause' = SaveCause(s.ok)
              /\ call' = [op |-> "add_position", code |-> code, shares |-> shares,
                          price |-> cost_price, by |-> "first", after |-> cause]
    /\ steps' = steps + 1
    /\ UNCHANGED <<clock, reported, trades, batch, todo, aside>>

\* PortfolioManager.add_position of the second manager
PeerAddPosition ==
    /\ steps < MaxSteps
    /\ \E code \in Codes, name \in Names, shares \in ShareInputs,
          cost_price \in PriceInputs, outcome \in SaveOutcomes :
          LET p1 == add_position(InMemory(peer, disk, clock), code, name,
                                 shares, cost_price, "", clock)
              s == save_config(p1, disk, clock, outcome)
          IN  /\ peer' = s.portfolio
              /\ disk' = s.disk
              /\ ret' = PyBool(s.ok)
              /\ cause' = SaveCause(s.ok)
              /\ call' = [op |-> "add_position", code |-> code, shares |-> shares,
                          price |-> cost_price, by |-> "peer", after |-> cause]
    /\ steps' = steps + 1
    /\ UNCHANGED <<portfolio, clock, reported, trades, batch, todo, alerts, store,
                   reply>>

NextTwo == FirstAddPosition \/ PeerAddPosition

SpecTwo == InitTwo /\ [][NextTwo]_vars

\* the symbols the account document holds
Persisted(d) == Keys(load_config(d, 0).positions)

\* C27: ledger updates are read-modify-write with no lock: when two managers
\* have loaded the same document and each saves one accepted mutation, the
\* later save writes the later saver's account alone, so the document holds
\* the symbols of the later saver and the first saver's mutation is lost.
C27_LaterSaveOverwrites ==
    [][ /\ (steps' = steps + 1 /\ call'.by = "peer" /\ cause' = "Saved") =>
            /\ disk' = Doc(to_dict(peer'))
            /\ Persisted(disk') = Keys(peer.positions) \cup {call'.code}
        /\ (steps' = steps + 1 /\ call'.by = "first" /\ cause' = "Saved") =>
            /\ disk' = Doc(to_dict(portfolio'))
            /\ Persisted(disk') = Keys(portfolio.positions) \cup {call'.code}
      ]_vars
\* both managers loaded the empty account; the first saved AAA, the peer then
\* saved BBB: the document holds BBB alone
C27_Witness ==
    /\ steps = 2
    /\ call.op = "add_position" /\ call.by = "peer" /\ call.code = "BBB"
    /\ cause = "Saved"
    /\ call.shares > 0
    /\ call.after = "Saved"
    /\ Keys(portfolio.positions) = {"AAA"}
    /\ Lookup(portfolio.positions, "AAA").shares > 0
    /\ Persisted(disk) = {"BBB"}

----------------------------------------------------------------------------
(* New positions before their first quote *)

\* an account with nothing held and a stop-loss line of `line` percent
StopConfig(line) == [DefaultConfig(0) EXCEPT !.stop_loss_pct = line]
\* stop-loss lines inside, on the edge of and outside (0, 100]
StopLines == {R(8), R(100), R(120)}

\* PortfolioManager.__init__
InitFresh ==
    /\ disk \in {Doc(to_dict(StopConfig(line))) : line \in StopLines}
    /\ clock = 0
    /\ portfolio = load_config(disk, 0)
    /\ call = NoCall
    /\ ret = "None"
    /\ cause = "Loaded"
    /\ reported = [c \in Causes |-> {}]
    /\ trades = <<>>
    /\ steps = 0
    /\ batch = <<>>
    /\ todo = {}
    /\ alerts = <<>>
    /\ store = NoStore
    /\ reply = NoReply
    /\ peer = NoPeer

UpdatePricesFresh == UpdatePricesFrom(QuoteInputs, 1)

NextFresh == AddPosition \/ UpdatePricesFresh \/ CheckRiskAlerts

SpecFresh == InitFresh /\ [][NextFresh]_vars

\* the position of `code` has not been quoted
Unquoted(p, code) ==
    HasKey(p.positions, code) /\ Lookup(p.positions, code).current_price = R(0)

\* C28: a position newly created by add_position has current price 0 until
\* a quote update; in that interval its market value is 0 and its profit-loss
\* percentage is -100 whenever its cost amount is positive, so
\* check_risk_alerts reports stop_loss for it whenever 0 < stop_loss_pct <= 100.
C28_UnquotedPositionHitsStopLoss ==
    [][ /\ (call'.op = "add_position" /\ steps' = steps + 1
              /\ ~HasKey(portfolio.positions, call'.code)) =>
            Unquoted(portfolio', call'.code)
        /\ \A code \in Codes :
             (Unquoted(portfolio, code) /\ steps' = steps + 1
                /\ call'.op # "update_prices") =>
               Unquoted(portfolio', code)
        /\ \A code \in Codes :
             Unquoted(portfolio', code) =>
               LET pos == Lookup(portfolio'.positions, code)
               IN  /\ market_value(pos) = R(0)
                   /\ RLt(R(0), cost_amount(pos)) =>
                         profit_loss_pct(pos) = R(-100)
        /\ \A code \in Codes :
             (call'.op = "check_risk_alerts" /\ steps' = steps + 1
                /\ Unquoted(portfolio, code)
                /\ RLt(R(0), cost_amount(Lookup(portfolio.positions, code)))
                /\ RLt(R(0), portfolio.stop_loss_pct)
                /\ RLe(portfolio.stop_loss_pct, R(100))) =>
               \E i \in 1..Len(alerts') :
                  /\ alerts'[i].type = "stop_loss"
                  /\ alerts'[i].code = code
                  /\ alerts'[i].pct = R(-100)
      ]_vars
\* reached: with the stop-loss line at 100 percent, a position bought a step
\* earlier and never quoted is reported as stop_loss
C28_Witness ==
    /\ call.op = "check_risk_alerts"
    /\ call.after = "add_position"
    /\ portfolio.stop_loss_pct = R(100)
    /\ Unquoted(portfolio, "AAA")
    /\ Lookup(portfolio.positions, "AAA").shares > 0
    /\ "stop_loss" \in KindsFor("AAA")

----------------------------------------------------------------------------
(* The dashboard: PortfolioAPI.get_dashboard_data *)

\* PortfolioConfig.total_cost
RECURSIVE CostUpTo(_, _)
CostUpTo(ps, i) ==
    IF i = 0 THEN R(0) ELSE RAdd(CostUpTo(ps, i - 1), cost_amount(ps[i].pos))
total_cost(p) == CostUpTo(p.positions, Len(p.positions))
\* PortfolioConfig.total_profit_loss
total_profit_loss(p) == RSub(total_market_value(p), total_cost(p))

\* get_dashboard_data: the entry of position_list built from one item of the
\* positions object
DashPosition(item) ==
    LET pos == item.data
        shares == Get(pos, "shares", 0)
        cost_price == Get(pos, "cost_price", R(0))
        current_price == Get(pos, "current_price", cost_price)
        mv == RMul(R(shares), current_price)
        cost == RMul(R(shares), cost_price)
        pl == RSub(mv, cost)
    IN  [code |-> item.key, name |-> Get(pos, "name", ""), shares |-> shares,
         cost_price |-> cost_price, current_price |-> current_price,
         market_value |-> mv, cost_amount |-> cost, profit_loss |-> pl,
         profit_loss_pct |->
            IF RLt(R(0), cost) THEN RMul(RDiv(pl, cost), R(100)) ELSE R(0)]

\* the running sums of the loop over the positions
RECURSIVE DashSum(_, _, _)
DashSum(list, field, i) ==
    IF i = 0 THEN R(0) ELSE RAdd(DashSum(list, field, i - 1), list[i][field])

\* get_dashboard_data: the last seven snapshots, oldest first
DashReturns(snapshots) ==
    LET dates == Last(Sorted(DOMAIN snapshots), 7)
    IN  [i \in 1..Len(dates) |->
           [date |-> dates[i],
            total_assets |-> Get(snapshots[dates[i]], "total_assets", R(0)),
            daily_profit_loss |->
               Get(snapshots[dates[i]], "daily_profit_loss", R(0)),
            daily_return_pct |->
               Get(snapshots[dates[i]], "daily_return_pct", R(0))]]

\* PortfolioAPI.get_dashboard_data
get_dashboard_data(file, st, now) ==
    LET account == load_json(file)
        snaps == get_snapshots(st)
        journal == get_trades(st)
    IN  IF ~account.isDict \/ snaps.raised \/ journal.raised
        THEN Raised("AttributeError")
        ELSE
        LET items == Get(account.data, "positions", <<>>)
            initial_capital == Get(account.data, "initial_capital", R(0))
            available_cash == Get(account.data, "available_cash", R(0))
            position_list == [i \in 1..Len(items) |-> DashPosition(items[i])]
            mv == DashSum(position_list, "market_value", Len(items))
            cost == DashSum(position_list, "cost_amount", Len(items))
            assets == RAdd(available_cash, mv)
            today == Get(snaps.value, DateOf(now), EmptyDict)
            acts == [i \in 1..Len(journal.value) |->
                       Get(journal.value[i], "action", "")]
        IN  Returned(
             [summary |->
                [initial_capital |-> initial_capital,
                 total_assets |-> assets,
                 available_cash |-> available_cash,
                 total_market_value |-> mv,
                 total_profit_loss |-> RSub(mv, cost),
                 total_return_pct |->
                    IF RLt(R(0), initial_capital)
                    THEN RMul(RDiv(RSub(assets, initial_capital),
                                   initial_capital), R(100))
                    ELSE R(0),
                 position_ratio |->
                    IF RLt(R(0), assets) THEN RMul(RDiv(mv, assets), R(100))
                    ELSE R(0),
                 daily_profit_loss |-> Get(today, "daily_profit_loss", R(0)),
                 daily_return_pct |-> Get(today, "daily_return_pct", R(0)),
                 position_count |-> Len(items)],
              positions |->
                [i \in 1..Len(items) |->
                   [f \in DOMAIN position_list[i] \ {"cost_amount"} |->
                      position_list[i][f]]],
              daily_returns |-> DashReturns(snaps.value),
              trade_stats |->
                [total |-> Len(acts),
                 buy |-> Cardinality({i \in 1..Len(acts) :
                                        acts[i] \in {"buy", "add"}}),
                 sell |-> Cardinality({i \in 1..Len(acts) :
                                         acts[i] \in {"sell", "reduce"}})],
              risk_params |->
                [stop_loss_pct |-> Get(account.data, "stop_loss_pct", R(8)),
                 take_profit_pct |-> Get(account.data, "take_profit_pct", R(20)),
                 max_single_position_pct |->
                    Get(account.data, "max_single_position_pct", R(30)),
                 max_total_position_pct |->
                    Get(account.data, "max_total_position_pct", R(80))]])

\* An account whose cash is spent, holding two shares bought at 1 and quoted
\* at 1/20, under the steeper fee schedule
DashConfig ==
    [SpentConfig EXCEPT !.positions =
        <<[key |-> "AAA",
           pos |-> Position("AAA", "Widget", 2, R(1), Rat(1, 20), 0, 0, "")]>>]
DashQuotes == {Rat(1, 20), R(2)}

\* PortfolioManager.__init__ and PortfolioAPI.__init__ over the same data_dir
InitDash ==
    /\ disk \in {Missing, Doc(to_dict(DashConfig))}
    /\ clock = 0
    /\ portfolio = load_config(disk, 0)
    /\ call = NoCall
    /\ ret = "None"
    /\ cause = "Loaded"
    /\ reported = [c \in Causes |-> {}]
    /\ trades = <<>>
    /\ steps = 0
    /\ batch = <<>>
    /\ todo = {}
    /\ alerts = <<>>
    /\ store \in [trades : {Missing, Doc([trades |-> Journal(2)])},
                   snapshots : {Missing}]
    /\ reply = NoReply
    /\ peer = NoPeer

\* PortfolioAPI.get_dashboard_data
GetDashboardData ==
    /\ reply' = Reply("get_dashboard_data", get_dashboard_data(disk, store, clock))
    /\ UNCHANGED <<portfolio, disk, clock, call, ret, cause, reported, trades, steps,
                   batch, todo, alerts, store, peer>>

UpdatePricesDash == UpdatePricesFrom(DashQuotes, 1)

NextDash == ReducePosition \/ UpdatePricesDash \/ GetDashboardData

SpecDash == InitDash /\ [][NextDash]_vars

\* C29: for every account document written by save_config, the summary of
\* get_dashboard_data (total market value, total assets, total profit and
\* loss, total return %, position ratio, position count, each position's
\* market value and profit-loss %) equals the derived values of the
\* PortfolioConfig loaded from the same document, also when the available
\* cash or the total assets are negative.
C29_DashboardMatchesAccount ==
    [][ (reply'.op = "get_dashboard_data" /\ reply' # reply /\ disk.kind = "doc") =>
          /\ ~reply'.raised
          /\ LET p == load_config(disk, clock)
                 s == reply'.value.summary
                 list == reply'.value.positions
             IN  /\ s.total_market_value = total_market_value(p)
                 /\ s.total_assets = total_assets(p)
                 /\ s.total_profit_loss = total_profit_loss(p)
                 /\ s.total_return_pct = total_return_pct(p)
                 /\ s.position_ratio = position_ratio(p)
                 /\ s.position_count = Len(p.positions)
                 /\ Len(list) = Len(p.positions)
                 /\ \A i \in 1..Len(list) :
                       /\ list[i].code = p.positions[i].key
                       /\ list[i].market_value = market_value(p.positions[i].pos)
                       /\ list[i].profit_loss_pct
                            = profit_loss_pct(p.positions[i].pos)
      ]_vars

----------------------------------------------------------------------------
(* A malformed account document and what becomes of it *)

\* the account the malformed document was written from: 500 in cash and five
\* shares bought at 2
LostConfig ==
    [DefaultConfig(0) EXCEPT !.available_cash = R(500),
                             !.positions =
                                <<[key |-> "AAA",
                                   pos |-> Position("AAA", "Widget", 5, R(2), R(2),
                                                    0, 0, "")]>>]
LostDocument == Garbled(to_dict(LostConfig))

\* PortfolioManager.__init__ finding the malformed document
InitLost ==
    /\ disk = LostDocument
    /\ clock = 0
    /\ portfolio = load_config(disk, 0)
    /\ call = NoCall
    /\ ret = "None"
    /\ cause = "Loaded"
    /\ reported = [c \in Causes |-> {}]
    /\ trades = <<>>
    /\ steps = 0
    /\ batch = <<>>
    /\ todo = {}
    /\ alerts = <<>>
    /\ store = NoStore
    /\ reply = NoReply
    /\ peer = NoPeer

UpdatePricesLost == UpdatePricesFrom(QuoteInputs, 1)

NextLost == AddPosition \/ ReducePosition \/ UpdatePricesLost \/ CheckRiskAlerts

SpecLost == InitLost /\ [][NextLost]_vars

\* the account holds the cash or the positions of the lost document
HoldsLost(p) ==
    \/ p.available_cash = LostConfig.available_cash
    \/ [i \in 1..Len(p.positions) |-> Ledger(p.positions[i].pos)]
         = [i \in 1..Len(LostConfig.positions) |->
              Ledger(LostConfig.positions[i].pos)]

====
